---------------------------- MODULE Spec2Model ----------------------------
(* Conversation buffer management of final_assignment.py (class SimpleChat): *)
(* the per-turn protocol chat(), the compaction _summarize() and the         *)
(* three-stage truncation cascade _apply_truncation(); and the field        *)
(* extraction of class InfoExtractor: extract() and validate().              *)
(*                                                                           *)
(* A Python str is modelled as a sequence of one-character strings, so that  *)
(* len(content) and len(content.split()) are computed, not assumed.          *)
EXTENDS Naturals, Integers, Sequences, FiniteSets

VARIABLES
    messages,          \* self.messages: sequence of [role, content]
    turn_count,        \* self.turn_count
    max_messages,      \* self.max_messages
    max_chars,         \* self.max_chars
    max_words,         \* self.max_words
    summarize_every,   \* self.summarize_every
    call               \* observation of the last call made on the object

vars == <<messages, turn_count, max_messages, max_chars, max_words,
          summarize_every, call>>

config == <<max_messages, max_chars, max_words, summarize_every>>

-----------------------------------------------------------------------------
(* Bounds of the model.                                                      *)

MaxTurns == 4
MaxCap == 4
MaxEvery == 3
MaxLen == 4

(* The number of topics of demo_task_1, test 1, and its configuration.       *)
DemoTurns == 8

DemoMaxMessages == 6
DemoMaxChars == 2000
DemoMaxWords == 500
DemoSummarizeEvery == 3

(* The default of SimpleChat.__init__.                                       *)
DefaultSummarizeEvery == 3

-----------------------------------------------------------------------------
(* Texts.                                                                    *)

UserTexts == { <<"h", "i">>, <<"a", " ", "b", " ", " ", "c">> }
ReplyTexts == { <<"o", "k">>, <<" ", "n", "o", " ", "w", "a", "y">> }
DigestTexts == { <<"d">>, <<"x", " ", "y", " ">> }

CharCaps == {6, 20, 2000}
WordCaps == {3, 500}

SystemPrompt == <<"Y","o","u"," ","a","r","e"," ","h","e","l","p","f","u","l",".">>
SummarizeInstruction ==
    <<"S","u","m","m","a","r","i","z","e"," ","i","n"," ","2"," ",
      "s","e","n","t","e","n","c","e","s",".">>
SummarizePrefix == <<"S","u","m","m","a","r","i","z","e",":"," ">>
SummaryOpen == <<"[","S","U","M","M","A","R","Y",":"," ">>
SummaryClose == <<"]">>
RoleSeparator == <<":", " ">>
Newline == <<"\n">>

RoleText(role) ==
    CASE role = "user" -> <<"u","s","e","r">>
      [] role = "assistant" -> <<"a","s","s","i","s","t","a","n","t">>
      [] role = "system" -> <<"s","y","s","t","e","m">>

Message(role, content) == [role |-> role, content |-> content]

-----------------------------------------------------------------------------
(* str.split() with no argument: the maximal runs of non-whitespace.         *)

IsSpace(c) == c \in {" ", "\n", "\t"}

RECURSIVE split_from(_, _, _)
split_from(s, i, word) ==
    IF i > Len(s)
    THEN IF word = <<>> THEN <<>> ELSE <<word>>
    ELSE IF IsSpace(s[i])
         THEN IF word = <<>>
              THEN split_from(s, i + 1, <<>>)
              ELSE <<word>> \o split_from(s, i + 1, <<>>)
         ELSE split_from(s, i + 1, Append(word, s[i]))

split(s) == split_from(s, 1, <<>>)

RECURSIVE total_chars(_)
total_chars(msgs) ==
    IF msgs = <<>> THEN 0 ELSE Len(Head(msgs).content) + total_chars(Tail(msgs))

RECURSIVE total_words(_)
total_words(msgs) ==
    IF msgs = <<>> THEN 0
    ELSE Len(split(Head(msgs).content)) + total_words(Tail(msgs))

(* Python slices s[-k:] (k >= 1) and s[:-k].                                 *)
LastN(s, k) == IF Len(s) <= k THEN s ELSE SubSeq(s, Len(s) - k + 1, Len(s))
AllButLastN(s, k) == IF Len(s) <= k THEN <<>> ELSE SubSeq(s, 1, Len(s) - k)

-----------------------------------------------------------------------------
(* _apply_truncation: count cap, then character cap, then word cap.          *)

(* Faulty variants of the count cap: no cap applied; the oldest kept.        *)
count_cap_off(msgs, mm) == msgs
count_cap_keep_first(msgs, mm) ==
    IF Len(msgs) > mm THEN SubSeq(msgs, 1, mm) ELSE msgs

count_cap(msgs, mm) ==
    IF Len(msgs) > mm THEN LastN(msgs, mm) ELSE msgs

RECURSIVE pop_while_chars(_, _, _)
pop_while_chars(msgs, total, mc) ==
    IF total > mc /\ Len(msgs) > 2
    THEN pop_while_chars(Tail(msgs), total - Len(Head(msgs).content), mc)
    ELSE msgs

(* Faulty variant of the character cap: the loop stops at 1 entry, not 2.    *)
RECURSIVE pop_while_chars_floor_1(_, _, _)
pop_while_chars_floor_1(msgs, total, mc) ==
    IF total > mc /\ Len(msgs) > 1
    THEN pop_while_chars_floor_1(Tail(msgs), total - Len(Head(msgs).content), mc)
    ELSE msgs

char_cap_floor_1(msgs, mc) ==
    IF total_chars(msgs) > mc
    THEN pop_while_chars_floor_1(msgs, total_chars(msgs), mc)
    ELSE msgs

(* Faulty variant of the character cap: one pop only.                        *)
char_cap_pop_once(msgs, mc) ==
    IF total_chars(msgs) > mc /\ Len(msgs) > 2 THEN Tail(msgs) ELSE msgs

char_cap(msgs, mc) ==
    IF total_chars(msgs) > mc THEN pop_while_chars(msgs, total_chars(msgs), mc) ELSE msgs

RECURSIVE pop_while_words(_, _, _)
pop_while_words(msgs, total, mw) ==
    IF total > mw /\ Len(msgs) > 2
    THEN pop_while_words(Tail(msgs), total - Len(split(Head(msgs).content)), mw)
    ELSE msgs

word_cap(msgs, mw) ==
    IF total_words(msgs) > mw THEN pop_while_words(msgs, total_words(msgs), mw) ELSE msgs

_apply_truncation(msgs, mm, mc, mw) ==
    word_cap(char_cap(count_cap(msgs, mm), mc), mw)

-----------------------------------------------------------------------------
(* _summarize.  reply is the outcome of the summarization collaborator:      *)
(* [ok |-> TRUE, text |-> digest] or [ok |-> FALSE, text |-> <<>>].          *)

RECURSIVE join_lines(_)
join_lines(lines) ==
    IF lines = <<>> THEN <<>>
    ELSE IF Len(lines) = 1 THEN Head(lines)
    ELSE Head(lines) \o Newline \o join_lines(Tail(lines))

conversation_text(old_messages) ==
    join_lines([i \in 1..Len(old_messages) |->
        RoleText(old_messages[i].role) \o RoleSeparator \o old_messages[i].content])

summary_request(old_messages) ==
    << Message("system", SummarizeInstruction),
       Message("user", SummarizePrefix \o conversation_text(old_messages)) >>

summary_message(digest) ==
    Message("assistant", SummaryOpen \o digest \o SummaryClose)

(* The early return of _summarize: no collaborator call, no change.          *)
NotSummarized(msgs) ==
    [messages |-> msgs, requests |-> <<>>, outcome |-> "none", raised |-> FALSE]

(* Faulty variants of _summarize.                                             *)
_summarize_partial(msgs, reply) ==
    IF Len(msgs) < 3
    THEN NotSummarized(msgs)
    ELSE [messages |-> IF reply.ok
                       THEN <<summary_message(reply.text)>> \o LastN(msgs, 2)
                       ELSE LastN(msgs, 2),
          requests |-> <<summary_request(AllButLastN(msgs, 2))>>,
          outcome |-> IF reply.ok THEN "ok" ELSE "failed",
          raised |-> FALSE]

_summarize_reraise(msgs, reply) ==
    IF Len(msgs) < 3
    THEN NotSummarized(msgs)
    ELSE [messages |-> IF reply.ok
                       THEN <<summary_message(reply.text)>> \o LastN(msgs, 2)
                       ELSE msgs,
          requests |-> <<summary_request(AllButLastN(msgs, 2))>>,
          outcome |-> IF reply.ok THEN "ok" ELSE "failed",
          raised |-> ~reply.ok]

_summarize_keep_one(msgs, reply) ==
    IF Len(msgs) < 3
    THEN NotSummarized(msgs)
    ELSE [messages |-> IF reply.ok
                       THEN <<summary_message(reply.text)>> \o LastN(msgs, 1)
                       ELSE msgs,
          requests |-> <<summary_request(AllButLastN(msgs, 2))>>,
          outcome |-> IF reply.ok THEN "ok" ELSE "failed",
          raised |-> FALSE]

_summarize_summary_last(msgs, reply) ==
    IF Len(msgs) < 3
    THEN NotSummarized(msgs)
    ELSE [messages |-> IF reply.ok
                       THEN LastN(msgs, 2) \o <<summary_message(reply.text)>>
                       ELSE msgs,
          requests |-> <<summary_request(AllButLastN(msgs, 2))>>,
          outcome |-> IF reply.ok THEN "ok" ELSE "failed",
          raised |-> FALSE]

_summarize(msgs, reply) ==
    IF Len(msgs) < 3
    THEN NotSummarized(msgs)
    ELSE [messages |-> IF reply.ok
                       THEN <<summary_message(reply.text)>> \o LastN(msgs, 2)
                       ELSE msgs,
          requests |-> <<summary_request(AllButLastN(msgs, 2))>>,
          outcome |-> IF reply.ok THEN "ok" ELSE "failed",
          raised |-> FALSE]

-----------------------------------------------------------------------------
(* chat.  sreply and creply are the outcomes of the summarization and the    *)
(* completion collaborator, should they be called.                           *)

(* Faulty variants of the compaction check.                                   *)
should_summarize_no_len(tc, se, msgs) == tc % se = 0
should_summarize_len_only(tc, se, msgs) == Len(msgs) > 3
should_summarize_from_3(tc, se, msgs) == tc % se = 0 /\ Len(msgs) >= 3

should_summarize(tc, se, msgs) == tc % se = 0 /\ Len(msgs) > 3

(* Faulty variant of the increment: an assignment.                           *)
next_turn_count_assigned(tc) == 1

(* self.turn_count += 1                                                      *)
next_turn_count(tc) == tc + 1

completion_prompt(msgs) == <<Message("system", SystemPrompt)>> \o msgs

(* Faulty variant of the completion step: the user message is dropped.         *)
complete_rollback(truncated, creply) ==
    IF creply.ok
    THEN [messages |-> Append(truncated, Message("assistant", creply.text)),
          result |-> "returned", value |-> creply.text]
    ELSE [messages |-> AllButLastN(truncated, 1), result |-> "raised", value |-> <<>>]

(* The completion call and the append of the reply.                          *)
complete(truncated, creply) ==
    IF creply.ok
    THEN [messages |-> Append(truncated, Message("assistant", creply.text)),
          result |-> "returned", value |-> creply.text]
    ELSE [messages |-> truncated, result |-> "raised", value |-> <<>>]

chat(msgs, tc, mm, mc, mw, se, user_message, sreply, creply) ==
    LET appended == Append(msgs, Message("user", user_message))
        count == next_turn_count(tc)
        attempt == should_summarize(count, se, appended)
        s == IF attempt THEN _summarize(appended, sreply) ELSE NotSummarized(appended)
        truncated == _apply_truncation(s.messages, mm, mc, mw)
        c == complete(truncated, creply)
    IN  IF s.raised
        THEN [ messages |-> s.messages,
               turn_count |-> count,
               appended |-> appended,
               attempted |-> attempt,
               requests |-> s.requests,
               summary |-> s.outcome,
               before_truncation |-> <<>>,
               after_truncation |-> <<>>,
               prompt |-> <<>>,
               result |-> "raised",
               value |-> <<>> ]
        ELSE [ messages |-> c.messages,
               turn_count |-> count,
               appended |-> appended,
               attempted |-> attempt,
               requests |-> s.requests,
               summary |-> s.outcome,
               before_truncation |-> s.messages,
               after_truncation |-> truncated,
               prompt |-> completion_prompt(truncated),
               result |-> c.result,
               value |-> c.value ]

-----------------------------------------------------------------------------
(* Collaborator outcomes.                                                    *)

Failure == [ok |-> FALSE, text |-> <<>>]
SummarySuccesses == {[ok |-> TRUE, text |-> d] : d \in DigestTexts}
CompletionSuccesses == {[ok |-> TRUE, text |-> r] : r \in ReplyTexts}
CompletionReplies == CompletionSuccesses \cup {Failure}

(* The observation of a call: the buffer at entry and at each stage.         *)
(* calls counts the chat() calls made; origins[i] is the rank of            *)
(* messages[i] among the appended messages: 2t - 1 for the user message of   *)
(* turn t, 2t for its reply, 0 for a summary entry, which was never          *)
(* appended; last_failed_turn is the turn of the latest failed summarization of an     *)
(* earlier call (0: none).                                                   *)
NoCall == [ op |-> "init", prior_result |-> "none",
            calls |-> 0, origins |-> <<>>, last_failed_turn |-> 0,
            entry |-> <<>>, entry_turn_count |-> 0,
            user_message |-> <<>>, digest |-> <<>>,
            appended |-> <<>>, attempted |-> FALSE, requests |-> <<>>,
            summary |-> "none", before_truncation |-> <<>>,
            after_truncation |-> <<>>, prompt |-> <<>>,
            result |-> "none", value |-> <<>> ]

(* The buffer with each entry carrying its rank, and the ranks of a buffer   *)
(* that a call returned: an entry the call created carries none; it is the   *)
(* user message (rank n + 1), the reply (last entry, rank n + 2) or a        *)
(* summary (rank 0).                                                         *)
Ranked(msgs, origins) ==
    [i \in 1..Len(msgs) |->
        [role |-> msgs[i].role, content |-> msgs[i].content, rank |-> origins[i]]]

Origins(ranked, n) ==
    [i \in 1..Len(ranked) |->
        IF "rank" \in DOMAIN ranked[i] THEN ranked[i].rank
        ELSE IF ranked[i].role = "user" THEN n + 1
        ELSE IF i = Len(ranked) /\ i > 1 /\ ranked[i - 1].role = "user" THEN n + 2
        ELSE 0]

-----------------------------------------------------------------------------
(* The session: SimpleChat(...) followed by chat() calls.                    *)

Init ==
    /\ messages = <<>>
    /\ turn_count = 0
    /\ max_messages \in 1..MaxCap
    /\ max_chars \in CharCaps
    /\ max_words \in WordCaps
    /\ summarize_every \in 1..MaxEvery
    /\ call = NoCall

DoChat(user_message, sreply, creply) ==
    \E r \in {chat(messages, turn_count, max_messages, max_chars, max_words,
                   summarize_every, user_message, sreply, creply)} :
        /\ messages' = r.messages
        /\ turn_count' = r.turn_count
        /\ call' = [ op |-> "chat", prior_result |-> call.result,
                     calls |-> call.calls + 1,
                     origins |-> Origins(
                         chat(Ranked(messages, call.origins), turn_count,
                              max_messages, max_chars, max_words, summarize_every,
                              user_message, sreply, creply).messages,
                         2 * turn_count),
                     last_failed_turn |-> IF call.summary = "failed"
                                          THEN turn_count ELSE call.last_failed_turn,
                     entry |-> messages, entry_turn_count |-> turn_count,
                     user_message |-> user_message,
                     digest |-> IF r.summary = "ok" THEN sreply.text ELSE <<>>,
                     appended |-> r.appended, attempted |-> r.attempted,
                     requests |-> r.requests, summary |-> r.summary,
                     before_truncation |-> r.before_truncation,
                     after_truncation |-> r.after_truncation, prompt |-> r.prompt,
                     result |-> r.result, value |-> r.value ]
        /\ UNCHANGED config

(* Whether the next chat() call reaches the summarization collaborator.      *)
WillSummarize ==
    /\ should_summarize(next_turn_count(turn_count), summarize_every,
                        Append(messages, Message("user", <<>>)))
    /\ Len(messages) + 1 >= 3

(* A turn in which the summarization collaborator is not called.             *)
ChatPlain ==
    /\ turn_count < MaxTurns
    /\ ~WillSummarize
    /\ \E u \in UserTexts, c \in CompletionReplies : DoChat(u, Failure, c)

(* A turn in which the summarization collaborator returns a digest.          *)
ChatSummarized ==
    /\ turn_count < MaxTurns
    /\ WillSummarize
    /\ \E u \in UserTexts, s \in SummarySuccesses, c \in CompletionReplies :
          DoChat(u, s, c)

(* A turn in which the summarization collaborator fails.                     *)
ChatSummaryFailed ==
    /\ turn_count < MaxTurns
    /\ WillSummarize
    /\ \E u \in UserTexts, c \in CompletionReplies : DoChat(u, Failure, c)

Next == ChatPlain \/ ChatSummarized \/ ChatSummaryFailed

Spec == Init /\ [][Next]_vars

-----------------------------------------------------------------------------
(* demo_task_1, test 1: eight turns under the demo configuration, every      *)
(* collaborator call succeeding.                                             *)

InitDemo ==
    /\ messages = <<>>
    /\ turn_count = 0
    /\ max_messages = DemoMaxMessages
    /\ max_chars = DemoMaxChars
    /\ max_words = DemoMaxWords
    /\ summarize_every = DemoSummarizeEvery
    /\ call = NoCall

DemoChatPlain ==
    /\ turn_count < DemoTurns
    /\ ~WillSummarize
    /\ \E u \in UserTexts, c \in CompletionSuccesses : DoChat(u, Failure, c)

DemoChatSummarized ==
    /\ turn_count < DemoTurns
    /\ WillSummarize
    /\ \E u \in UserTexts, s \in SummarySuccesses, c \in CompletionSuccesses :
          DoChat(u, s, c)

NextDemo == DemoChatPlain \/ DemoChatSummarized

SpecDemo == InitDemo /\ [][NextDemo]_vars

-----------------------------------------------------------------------------
(* _apply_truncation and _summarize called on an arbitrary buffer.           *)

BufferMessages ==
    {Message("user", t) : t \in UserTexts}
      \cup {Message("assistant", t) : t \in ReplyTexts}
      \cup {summary_message(d) : d \in DigestTexts}

Buffers == UNION {[1..n -> BufferMessages] : n \in 0..MaxLen}

(* turn_count is any count; the two calls never read it.                     *)
InitUnit ==
    /\ messages \in Buffers
    /\ turn_count = Len(messages)
    /\ max_messages \in 1..MaxCap
    /\ max_chars \in CharCaps
    /\ max_words \in WordCaps
    /\ summarize_every = DefaultSummarizeEvery
    /\ call = NoCall

CallApplyTruncation ==
    /\ call.op = "init"
    /\ messages' = _apply_truncation(messages, max_messages, max_chars, max_words)
    /\ call' = [NoCall EXCEPT !.op = "_apply_truncation", !.entry = messages,
                              !.entry_turn_count = turn_count,
                              !.before_truncation = messages,
                              !.after_truncation = messages']
    /\ UNCHANGED <<turn_count, config>>

DoSummarize(sreply) ==
    \E r \in {_summarize(messages, sreply)} :
        /\ messages' = r.messages
        /\ call' = [NoCall EXCEPT !.op = "_summarize", !.entry = messages,
                                  !.entry_turn_count = turn_count,
                                  !.attempted = TRUE,
                                  !.requests = r.requests,
                                  !.summary = r.outcome,
                                  !.digest = IF r.outcome = "ok" THEN sreply.text ELSE <<>>,
                                  !.result = IF r.raised THEN "raised" ELSE "returned"]
        /\ UNCHANGED <<turn_count, config>>

CallSummarizeOk ==
    /\ call.op = "init"
    /\ \E s \in SummarySuccesses : DoSummarize(s)

CallSummarizeFails ==
    /\ call.op = "init"
    /\ DoSummarize(Failure)

NextUnit == CallApplyTruncation \/ CallSummarizeOk \/ CallSummarizeFails

SpecUnit == InitUnit /\ [][NextUnit]_vars

-----------------------------------------------------------------------------
(* InfoExtractor.  A JSON value is [type, val]: null, a string (a sequence   *)
(* of characters), an integer, or a number that is no integer.               *)

Null == [type |-> "null", val |-> <<>>]
Str(s) == [type |-> "str", val |-> s]
Num(n) == [type |-> "int", val |-> n]
Float(s) == [type |-> "float", val |-> s]

Fields == {"name", "email", "phone", "location", "age"}

Digits == {"0", "1", "2", "3", "4", "5", "6", "7", "8", "9"}

AllNull == [name |-> Null, email |-> Null, phone |-> Null, location |-> Null,
            age |-> Null]

(* Values the extraction collaborator may return for each field.             *)
NameValues == {Null, Str(<<"M","i","k","e">>)}
EmailValues == {Null, Str(<<>>), Str(<<"m","@","t",".","i","o">>), Str(<<"m","t",".","i","o">>)}
PhoneValues ==
    {Null, Str(<<>>),
     Str(<<"5","5","5","-","1","2","3","-","4","5","6","7">>),
     Str(<<"1","2","3","4","5">>),
     Str(<<"(","5","5","5",")"," ","1","2","3","-","4","5","6","7">>),
     Str(<<"+","1","5","5","5","1","2","3","4","5","6","7">>),
     Str(<<"5","5","5","-","1","2","3","4">>),
     Str(<<"-", "-">>)}
LocationValues == {Null, Str(<<"S","e","a","t","t","l","e">>)}
AgeValues ==
    {Null, Num(-1), Num(0), Num(28), Num(150), Num(151), Num(200),
     Str(<<"2","8">>), Float(<<"2","8",".","5">>)}

ExtractedRecords ==
    [name : NameValues, email : EmailValues, phone : PhoneValues,
     location : LocationValues, age : AgeValues]

ExtractTexts == {"Hey, I'm Mike from Seattle. You can reach me at mike@tech.io",
                 "I need help with my coding project. Can you assist me?"}

(* Truth value of a field in `if data.get(field)`.                           *)
truthy(v) ==
    CASE v.type = "null" -> FALSE
      [] v.type = "str" -> v.val # <<>>
      [] v.type = "int" -> v.val # 0
      [] OTHER -> TRUE

(* str.replace(ch, "")                                                       *)
remove(s, ch) == LET keep(c) == c # ch IN SelectSeq(s, keep)

(* str.isdigit(): at least one character, all of them digits.                *)
isdigit(s) == s # <<>> /\ \A i \in 1..Len(s) : s[i] \in Digits

normalized_phone(s) == remove(remove(remove(remove(s, " "), "-"), "("), ")")

(* Faulty variant of the age check: an unrealistic age is an error.          *)
age_check_range_is_error(age) ==
    IF age.type # "null"
    THEN IF age.type # "int"
         THEN [is_valid |-> FALSE, errors |-> <<"Age must be integer">>, warnings |-> <<>>]
         ELSE IF age.val < 0 \/ age.val > 150
              THEN [is_valid |-> FALSE, errors |-> <<"Age seems unrealistic">>,
                    warnings |-> <<>>]
              ELSE [is_valid |-> TRUE, errors |-> <<>>, warnings |-> <<>>]
    ELSE [is_valid |-> TRUE, errors |-> <<>>, warnings |-> <<>>]

age_check(age) ==
    IF age.type # "null"
    THEN IF age.type # "int"
         THEN [is_valid |-> FALSE, errors |-> <<"Age must be integer">>, warnings |-> <<>>]
         ELSE IF age.val < 0 \/ age.val > 150
              THEN [is_valid |-> TRUE, errors |-> <<>>,
                    warnings |-> <<"Age seems unrealistic">>]
              ELSE [is_valid |-> TRUE, errors |-> <<>>, warnings |-> <<>>]
    ELSE [is_valid |-> TRUE, errors |-> <<>>, warnings |-> <<>>]

email_warnings(email) ==
    IF truthy(email) /\ ~(\E i \in 1..Len(email.val) : email.val[i] = "@")
    THEN <<"Email format seems invalid">>
    ELSE <<>>

(* Faulty variant of the phone check: the length alone is checked.           *)
phone_warnings_length_only(phone) ==
    IF truthy(phone)
    THEN IF Len(normalized_phone(phone.val)) < 10
         THEN <<"Phone format seems invalid">>
         ELSE <<>>
    ELSE <<>>

phone_warnings(phone) ==
    IF truthy(phone)
    THEN IF ~isdigit(normalized_phone(phone.val)) \/ Len(normalized_phone(phone.val)) < 10
         THEN <<"Phone format seems invalid">>
         ELSE <<>>
    ELSE <<>>

validate(data) ==
    [ is_valid |-> age_check(data.age).is_valid,
      errors |-> age_check(data.age).errors,
      warnings |-> age_check(data.age).warnings \o email_warnings(data.email)
                     \o phone_warnings(data.phone),
      extracted_count |-> Cardinality({f \in Fields : data[f].type # "null"}) ]

(* Faulty variant of extract: the failure propagates.                        *)
extract_propagates(text, reply) ==
    IF reply.ok
    THEN [data |-> reply.data, result |-> "returned"]
    ELSE [data |-> AllNull, result |-> "raised"]

(* extract.  reply is the outcome of the extraction collaborator and of the  *)
(* parse of its arguments: [ok |-> TRUE, data |-> record] or a failure.      *)
extract(text, reply) ==
    IF reply.ok
    THEN [data |-> reply.data, result |-> "returned"]
    ELSE [data |-> AllNull, result |-> "returned"]

ExtractionFailure == [ok |-> FALSE, data |-> AllNull]
ExtractionSuccesses == {[ok |-> TRUE, data |-> d] : d \in ExtractedRecords}

(* demo_task_2: extract() on a text, then validate() on its result.  No      *)
(* SimpleChat takes part; its variables stay as constructed.                 *)
InitExtract ==
    /\ messages = <<>>
    /\ turn_count = 0
    /\ max_messages = DemoMaxMessages
    /\ max_chars = DemoMaxChars
    /\ max_words = DemoMaxWords
    /\ summarize_every = DemoSummarizeEvery
    /\ call = [op |-> "init"]

DoExtract(text, reply) ==
    \E r \in {extract(text, reply)} :
        /\ call' = [ op |-> "extract", text |-> text,
                     collaborator |-> IF reply.ok THEN "ok" ELSE "failed",
                     data |-> r.data, result |-> r.result ]
        /\ UNCHANGED <<messages, turn_count, config>>

ExtractReturnsData ==
    /\ call.op = "init"
    /\ \E text \in ExtractTexts, reply \in ExtractionSuccesses : DoExtract(text, reply)

ExtractFails ==
    /\ call.op = "init"
    /\ \E text \in ExtractTexts : DoExtract(text, ExtractionFailure)

Validate ==
    /\ call.op = "extract"
    /\ call.result = "returned"
    /\ call' = [ op |-> "validate", text |-> call.text,
                 collaborator |-> call.collaborator,
                 data |-> call.data, result |-> "returned",
                 validation |-> validate(call.data) ]
    /\ UNCHANGED <<messages, turn_count, config>>

NextExtract == ExtractReturnsData \/ ExtractFails \/ Validate

SpecExtract == InitExtract /\ [][NextExtract]_vars

-----------------------------------------------------------------------------
(* Properties.                                                               *)

Truncated == call.op = "_apply_truncation"
Summarized == call.op = "_summarize"
Chatted == call.op = "chat"

(* C1: immediately after _apply_truncation returns, for every buffer and    *)
(* every configuration with max_messages >= 1, len(messages) is at most     *)
(* max_messages.                                                            *)
C1_CountCap ==
    (Truncated /\ max_messages >= 1) => Len(messages) <= max_messages

C1_Witness ==
    /\ Truncated
    /\ Len(call.entry) > max_messages
    /\ Len(messages) = max_messages

(* C2, as stated: under the demo configuration, with every collaborator     *)
(* call succeeding and short texts, the buffer holds at most 6 entries      *)
(* after 8 chat() calls.                                                    *)
C2_FinalWithinCap ==
    (Chatted /\ turn_count = DemoTurns) => Len(messages) <= DemoMaxMessages

(* C2, amended: after 8 chat() calls the buffer holds at most 7 entries     *)
(* (max_messages + 1); it held at most 6 when the eighth turn's truncation  *)
(* stage ended, before the reply was appended.                              *)
C2_FinalWithinCapPlusOne ==
    (Chatted /\ turn_count = DemoTurns) =>
        /\ Len(messages) <= DemoMaxMessages + 1
        /\ Len(call.after_truncation) <= DemoMaxMessages

C2_Witness ==
    /\ Chatted
    /\ turn_count = DemoTurns
    /\ call.result = "returned"
    /\ Len(messages) = DemoMaxMessages + 1

(* C3: under the demo configuration, in a run of 8 chat() calls, compaction *)
(* fires in turn 3 and in turn 6 and in no other turn, and each time the    *)
(* buffer holds exactly 3 entries (the summary and the two most recent)     *)
(* when that turn's truncation stage starts.                                *)
C3_CompactionTurns ==
    Chatted =>
        /\ (call.summary = "ok") <=> (turn_count \in {3, 6})
        /\ call.attempted <=> (turn_count \in {3, 6})
        /\ Len(call.requests) = (IF turn_count \in {3, 6} THEN 1 ELSE 0)
        /\ turn_count \in {3, 6} =>
              /\ Len(call.before_truncation) = 3
              /\ call.before_truncation[1] = summary_message(call.digest)
              /\ SubSeq(call.before_truncation, 2, 3) = LastN(call.appended, 2)
        /\ turn_count \notin {3, 6} => call.before_truncation = call.appended

C3_Witness ==
    /\ Chatted
    /\ turn_count = 6
    /\ call.summary = "ok"
    /\ Len(call.appended) > 3
    /\ Len(call.before_truncation) = 3

(* C4: at the end of every chat() call that returned, for every             *)
(* configuration with max_messages >= 1, len(messages) is at most           *)
(* max_messages + 1 and is the length left by that turn's truncation stage  *)
(* plus 1.                                                                  *)
C4_OvershootByOne ==
    (Chatted /\ call.result = "returned" /\ max_messages >= 1) =>
        /\ Len(messages) <= max_messages + 1
        /\ Len(messages) = Len(call.after_truncation) + 1

C4_Witness ==
    /\ Chatted
    /\ call.result = "returned"
    /\ Len(call.before_truncation) > max_messages
    /\ Len(messages) = max_messages + 1

(* C5: when a compaction succeeds on a buffer of n > 3 entries, the buffer  *)
(* becomes the summary entry "[SUMMARY: " + digest + "]" followed by the    *)
(* last two earlier entries, unchanged and in order: 3 entries.             *)
C5_CompactionResult ==
    (Summarized /\ call.summary = "ok" /\ Len(call.entry) > 3) =>
        /\ Len(messages) = 3
        /\ messages[1].content = SummaryOpen \o call.digest \o SummaryClose
        /\ messages[2] = call.entry[Len(call.entry) - 1]
        /\ messages[3] = call.entry[Len(call.entry)]

C5_Witness ==
    /\ Summarized
    /\ call.summary = "ok"
    /\ Len(call.entry) > 3
    /\ Len(messages) = 3

(* C6: no compaction is attempted (no summarization call, no rewrite of     *)
(* the buffer) in a turn whose buffer holds 3 or fewer entries right after  *)
(* the user message is appended, whatever turn_count and summarize_every.   *)
C6_CompactionGuard ==
    (Chatted /\ Len(call.appended) <= 3) =>
        /\ ~call.attempted
        /\ call.requests = <<>>
        /\ call.summary = "none"
        /\ call.before_truncation = call.appended

C6_Witness ==
    /\ Chatted
    /\ Len(call.appended) = 3
    /\ turn_count % summarize_every = 0
    /\ call.requests = <<>>

(* C7: if the summarization collaborator fails during a compaction attempt, *)
(* the buffer after the attempt is the buffer before it and turn_count is   *)
(* unchanged.                                                               *)
C7_FailedCompactionNoOp ==
    (Summarized /\ call.summary = "failed") =>
        /\ messages = call.entry
        /\ turn_count = call.entry_turn_count

C7_Witness ==
    /\ Summarized
    /\ call.summary = "failed"
    /\ Len(call.entry) > 3
    /\ messages = call.entry

(* C8: a failure of the summarization collaborator does not abort the turn: *)
(* the same chat() call runs truncation on the un-compacted history, calls  *)
(* the completion collaborator with it and, if that succeeds, appends the   *)
(* reply and returns it.                                                    *)
C8_SummaryFailureAbsorbed ==
    (Chatted /\ call.summary = "failed") =>
        /\ call.before_truncation = call.appended
        /\ call.after_truncation =
              _apply_truncation(call.appended, max_messages, max_chars, max_words)
        /\ call.prompt = <<Message("system", SystemPrompt)>> \o call.after_truncation
        /\ call.result = "returned" =>
              messages = Append(call.after_truncation, Message("assistant", call.value))
        /\ call.result = "raised" => messages = call.after_truncation

C8_Witness ==
    /\ Chatted
    /\ call.summary = "failed"
    /\ call.result = "returned"
    /\ messages = Append(call.after_truncation, Message("assistant", call.value))

(* C9: if the completion collaborator fails in a turn, chat() raises, no    *)
(* assistant entry is appended and the buffer stays as the truncation stage *)
(* left it, with the user message of the turn last and turn_count already   *)
(* incremented; a later chat() call proceeds from that state.               *)
C9_Step ==
    /\ (call'.op = "chat" /\ call'.result = "raised") =>
          /\ messages' = call'.after_truncation
          /\ messages'[Len(messages')] = Message("user", call'.user_message)
          /\ turn_count' = turn_count + 1
    /\ (call.op = "chat" /\ call.result = "raised" /\ call'.op = "chat") =>
          /\ call'.appended = Append(messages, Message("user", call'.user_message))
          /\ turn_count' = turn_count + 1

C9_CompletionFailure == [][C9_Step]_vars

C9_Witness ==
    /\ Chatted
    /\ call.prior_result = "raised"
    /\ call.result = "returned"
    /\ Len(call.entry) > 0

(* C10: truncation is idempotent: applying _apply_truncation again directly *)
(* after an application leaves the buffer unchanged.                        *)
C10_Idempotent ==
    Truncated =>
        _apply_truncation(messages, max_messages, max_chars, max_words) = messages

C10_Witness ==
    /\ Truncated
    /\ messages # call.entry
    /\ total_chars(call.entry) > max_chars
    /\ Len(messages) > 2

IsSuffix(t, s) == Len(t) <= Len(s) /\ t = LastN(s, Len(t))

Min(a, b) == IF a <= b THEN a ELSE b

IsSummary(m) ==
    /\ m.role = "assistant"
    /\ Len(m.content) >= Len(SummaryOpen)
    /\ SubSeq(m.content, 1, Len(SummaryOpen)) = SummaryOpen

(* C11: the character-cap and word-cap stages of _apply_truncation never    *)
(* remove an entry when 2 or fewer entries remain: a buffer that enters     *)
(* them (after the count cap) with at least 2 entries leaves them with at   *)
(* least 2, and one that enters with 2 or fewer leaves unchanged in length, *)
(* however far the totals exceed max_chars and max_words.                   *)
C11_FloorOfTwo ==
    Truncated =>
        LET entering == Min(Len(call.entry), max_messages)
        IN  /\ entering >= 2 => Len(messages) >= 2
            /\ entering <= 2 => Len(messages) = entering

C11_Witness ==
    /\ Truncated
    /\ Min(Len(call.entry), max_messages) > 2
    /\ Len(messages) = 2
    /\ total_chars(messages) > max_chars
    /\ total_words(messages) > max_words

(* C12: turn_count starts at 0 and increases by exactly 1 in every chat()   *)
(* call, whether the call returns, has its summarization fail or raises on  *)
(* a completion failure; compaction and truncation never change it: after   *)
(* k chat() calls turn_count = k.                                           *)
C12_TurnCount ==
    /\ turn_count = call.calls
    /\ call.op = "init" => turn_count = 0
    /\ Chatted => turn_count = call.entry_turn_count + 1

C12_Witness ==
    /\ Chatted
    /\ call.summary = "failed"
    /\ call.result = "raised"
    /\ call.prior_result = "raised"
    /\ Len(call.after_truncation) < Len(call.before_truncation)
    /\ turn_count = call.calls

(* C13: the buffer is in chronological order in every reachable state: the  *)
(* entries other than a summary are, in order, messages that were appended  *)
(* (their ranks increase along the buffer), a summary entry stands only at  *)
(* the front, compaction puts it before the two entries it keeps, and       *)
(* truncation leaves a contiguous suffix of the buffer it received.         *)
C13_Chronological ==
    /\ Len(call.origins) = Len(messages)
    /\ \A i \in 1..Len(messages) :
          /\ call.origins[i] <= 2 * turn_count
          /\ i > 1 => (call.origins[i] > call.origins[i - 1] /\ ~IsSummary(messages[i]))
          /\ (call.origins[i] = 0) <=> IsSummary(messages[i])
          /\ call.origins[i] > 0 =>
                messages[i].role = (IF call.origins[i] % 2 = 1 THEN "user" ELSE "assistant")
    /\ Chatted =>
          /\ IsSuffix(call.after_truncation, call.before_truncation)
          /\ call.summary = "ok" =>
                /\ IsSummary(call.before_truncation[1])
                /\ Tail(call.before_truncation) = LastN(call.appended, 2)
          /\ call.summary # "ok" => call.before_truncation = call.appended
          /\ call.appended = Append(call.entry, Message("user", call.user_message))

C13_Witness ==
    /\ Chatted
    /\ Len(messages) >= 4
    /\ IsSummary(messages[1])
    /\ call.summary = "none"
    /\ call.result = "returned"
    /\ call.origins[2] > 1

Validated == call.op = "validate"

Count(seq, x) == Cardinality({i \in 1..Len(seq) : seq[i] = x})

PhoneWarned == Count(call.validation.warnings, "Phone format seems invalid") > 0

DigitCount(s) == Cardinality({i \in 1..Len(s) : s[i] \in Digits})

(* C14: validate sets is_valid to false if and only if age is present and   *)
(* not an integer; an integer age below 0 or above 150 leaves is_valid true *)
(* and appends exactly one age warning and no error.                        *)
C14_AgeValidity ==
    Validated =>
        /\ (call.validation.is_valid = FALSE) <=>
              (call.data.age.type \notin {"null", "int"})
        /\ (call.data.age.type = "int" /\
              (call.data.age.val < 0 \/ call.data.age.val > 150)) =>
              /\ call.validation.is_valid = TRUE
              /\ call.validation.errors = <<>>
              /\ Count(call.validation.warnings, "Age seems unrealistic") = 1

C14_Witness ==
    /\ Validated
    /\ call.data.age = Num(200)
    /\ call.validation.is_valid = TRUE
    /\ Count(call.validation.warnings, "Age seems unrealistic") = 1

(* C15, as stated: validate appends a phone warning when, and only when,    *)
(* phone is present (read here as: a string that is not empty) and the      *)
(* digits of it are fewer than 10.                                          *)
C15_PhoneWarningByDigitCount ==
    Validated =>
        (PhoneWarned <=>
            /\ call.data.phone.type = "str"
            /\ call.data.phone.val # <<>>
            /\ DigitCount(call.data.phone.val) < 10)

(* C15, amended: validate appends a phone warning when, and only when,      *)
(* phone is present and not empty and either holds a character other than   *)
(* a digit, a space, a hyphen or a parenthesis, or holds fewer than 10      *)
(* digits; "555-123-4567" yields no warning and "12345" yields one.         *)
C15_PhoneWarning ==
    Validated =>
        /\ PhoneWarned <=>
              /\ call.data.phone.type = "str"
              /\ call.data.phone.val # <<>>
              /\ \/ \E i \in 1..Len(call.data.phone.val) :
                       call.data.phone.val[i] \notin Digits \cup {" ", "-", "(", ")"}
                 \/ DigitCount(call.data.phone.val) < 10
        /\ call.data.phone = Str(<<"5","5","5","-","1","2","3","-","4","5","6","7">>)
              => ~PhoneWarned
        /\ call.data.phone = Str(<<"1","2","3","4","5">>) => PhoneWarned
        /\ Count(call.validation.warnings, "Phone format seems invalid") <= 1

C15_Witness ==
    /\ Validated
    /\ call.data.phone = Str(<<"+","1","5","5","5","1","2","3","4","5","6","7">>)
    /\ PhoneWarned

(* C16: if the extraction collaborator call fails, extract raises nothing   *)
(* and returns the record whose five fields are null; validate on that      *)
(* record reports extracted_count = 0, is_valid = true, no error and no     *)
(* warning.                                                                 *)
C16_ExtractionFailure ==
    (call.op \in {"extract", "validate"} /\ call.collaborator = "failed") =>
        /\ call.result = "returned"
        /\ DOMAIN call.data = Fields
        /\ \A f \in Fields : call.data[f] = Null
        /\ Validated =>
              call.validation = [is_valid |-> TRUE, errors |-> <<>>, warnings |-> <<>>,
                                 extracted_count |-> 0]

C16_Witness ==
    /\ Validated
    /\ call.collaborator = "failed"
    /\ call.validation.extracted_count = 0

(* C17: _summarize itself is guarded by len(messages) > 3: invoked on a     *)
(* buffer of 3 or fewer entries it makes no summarization call and leaves   *)
(* the buffer unchanged.                                                    *)
C17_SummarizeGuard ==
    (Summarized /\ Len(call.entry) <= 3) =>
        /\ call.requests = <<>>
        /\ messages = call.entry

(* C18: after _apply_truncation returns, the character and the word budget  *)
(* are exceeded only when at most 2 entries remain.                         *)
C18_BudgetsOrFloor ==
    Truncated =>
        /\ total_chars(messages) <= max_chars \/ Len(messages) <= 2
        /\ total_words(messages) <= max_words \/ Len(messages) <= 2

C18_Witness ==
    /\ Truncated
    /\ total_chars(LastN(call.entry, max_messages)) > max_chars
    /\ Len(messages) >= 3
    /\ total_chars(messages) <= max_chars
    /\ total_words(messages) <= max_words

(* C19: compaction is attempted in a turn exactly when, after the append of *)
(* the user message and the increment, turn_count mod summarize_every = 0   *)
(* and len(messages) > 3; at most once per turn, before that turn's         *)
(* truncation; after a failed attempt in turn t no attempt occurs before    *)
(* turn t + summarize_every.                                                *)
C19_CompactionSchedule ==
    Chatted =>
        /\ call.attempted <=>
              (turn_count % summarize_every = 0 /\ Len(call.appended) > 3)
        /\ Len(call.requests) = (IF call.attempted THEN 1 ELSE 0)
        /\ (call.summary # "none") <=> call.attempted
        /\ call.summary = "ok" =>
              call.before_truncation =
                  <<summary_message(call.digest)>> \o LastN(call.appended, 2)
        /\ IsSuffix(call.after_truncation, call.before_truncation)
        /\ (call.last_failed_turn > 0 /\
              turn_count < call.last_failed_turn + summarize_every) => ~call.attempted

C19_Witness ==
    /\ Chatted
    /\ call.last_failed_turn = turn_count - 1
    /\ summarize_every > 1
    /\ Len(call.appended) > 3
    /\ ~call.attempted
    /\ call.requests = <<>>

(* C20: for every configuration with max_messages >= 1 and every sequence   *)
(* of turns, the prompt sent to the completion collaborator is the system   *)
(* message followed by the buffer as truncation left it, and its last entry *)
(* is the user message appended in the same chat() call.                    *)
C20_UserMessageAnswered ==
    (Chatted /\ max_messages >= 1) =>
        /\ call.after_truncation # <<>>
        /\ call.prompt = <<Message("system", SystemPrompt)>> \o call.after_truncation
        /\ call.prompt[Len(call.prompt)] = Message("user", call.user_message)
        /\ call.origins[Len(call.after_truncation)] = 2 * turn_count - 1

C20_Witness ==
    /\ Chatted
    /\ call.summary = "ok"
    /\ Len(call.after_truncation) = 2
    /\ Len(call.before_truncation) = 3
    /\ total_chars(call.after_truncation) > max_chars
    /\ call.prompt[Len(call.prompt)] = Message("user", call.user_message)

=============================================================================
